---------------------------- MODULE Spec2Model ----------------------------
(***************************************************************************)
(* Model of the WoodSense pole structural-health pipeline                  *)
(* (main.py, utils/pole_est.py, utils/pole_det.py, pole.py).               *)
(*                                                                         *)
(* The program computes in float64.  The model carries every real as a     *)
(* fixed-point integer and multiplies/divides through MulDiv, which keeps  *)
(* the full product (as a wide intermediate would) and saturates at        *)
(* SatMax:                                                                 *)
(*     lengths (L_free, h_support, heights)   0.5 mm   (LU)                *)
(*     diameters and circumferences           1 um                         *)
(*     frequencies                            1 mHz                        *)
(*     masses                                 1 g                          *)
(*     percentages (deviation, thresholds)    0.01 %                       *)
(* float('nan') is the reserved code NaN, Python's None the reserved code  *)
(* None; every arithmetic step tests for NaN first, as IEEE arithmetic     *)
(* propagates it, and every comparison with NaN is FALSE.                  *)
(***************************************************************************)
EXTENDS Integers, Sequences, FiniteSets, TLC

\* ------------------------------------------------------------------------
\* Number representation
\* ------------------------------------------------------------------------

\* float('nan') / np.nan
NaN == -2000000000

\* Python None
None == -1999999999

\* largest magnitude the fixed-point quantities carry (products saturate here)
SatMax == 1000000000

IsNaN(x) == x = NaN

Min(a, b) == IF a <= b THEN a ELSE b

Max(a, b) == IF a >= b THEN a ELSE b

Abs(x) == IF x < 0 THEN 0 - x ELSE x

SatAdd(x, y) == IF x >= SatMax - y THEN SatMax ELSE x + y

\* <<floor(a*b/c), (a*b) % c>> for a, b >= 0 and 0 < c < 2^30, computed by
\* doubling so that no intermediate leaves the integer range; the quotient
\* saturates at SatMax.
RECURSIVE MulDivQR(_, _, _)
MulDivQR(a, b, c) ==
    IF b = 0 THEN <<0, 0>>
    ELSE CHOOSE r \in
           { LET dr == IF h[2] >= c - h[2] THEN <<1, h[2] - (c - h[2])>>
                                          ELSE <<0, h[2] + h[2]>>
                 q2 == SatAdd(SatAdd(h[1], h[1]), dr[1])
                 aq == Min(a \div c, SatMax)
                 ar == a % c
             IN  IF b % 2 = 0 THEN <<q2, dr[2]>>
                 ELSE IF dr[2] >= c - ar
                      THEN <<SatAdd(SatAdd(q2, aq), 1), dr[2] - (c - ar)>>
                      ELSE <<SatAdd(q2, aq), dr[2] + ar>>
             : h \in {MulDivQR(a, b2, c) : b2 \in {b \div 2}} } : TRUE

\* a*b/c on non-negative fixed-point values: directly when the product fits,
\* otherwise by MulDivQR on the arguments bound to their values
MulDiv(a, b, c) ==
    CHOOSE q \in
      { IF t[2] = 0 \/ t[1] <= 2147483647 \div t[2]
        THEN Min((t[1] * t[2]) \div t[3], SatMax)
        ELSE IF t[1] < t[2] THEN MulDivQR(t[2], t[1], t[3])[1]
        ELSE MulDivQR(t[1], t[2], t[3])[1]
        : t \in {<<a, b, c>>} } : TRUE

\* floor of the square root (np.sqrt on a fixed-point value), 0 <= n < 2^31
RECURSIVE ISqrtBS(_, _, _)
ISqrtBS(n, lo, hi) ==
    IF hi - lo <= 1 THEN lo
    ELSE CHOOSE r \in { IF mid * mid <= n THEN ISqrtBS(n, mid, hi)
                                          ELSE ISqrtBS(n, lo, mid)
                        : mid \in {(lo + hi) \div 2} } : TRUE

ISqrt(n) == CHOOSE r \in {ISqrtBS(v, 0, 46341) : v \in {n}} : TRUE

\* np.pi as the rational PI_NUM / PI_DEN
PI_NUM == 355

PI_DEN == 113

\* ------------------------------------------------------------------------
\* utils/pole_est.py : material, geometry
\* ------------------------------------------------------------------------

\* mat["E_GPa"] and mat["density"]
E_GPa == 11

rho == 600

\* heights from the pole top [LU] and the diameters measured there [um]
heights == <<0, 15000, 18000>>

diameters == <<170000, 210000, 249375>>

\* np.interp(x, xp, fp): linear interpolation, end values outside the range
np_interp(x, xp, fp) ==
    IF IsNaN(x) THEN NaN
    ELSE IF x <= xp[1] THEN fp[1]
    ELSE IF x >= xp[Len(xp)] THEN fp[Len(fp)]
    ELSE LET j == CHOOSE k \in 1..(Len(xp) - 1) : xp[k] <= x /\ x < xp[k + 1]
         IN  fp[j] + MulDiv(x - xp[j], fp[j + 1] - fp[j], xp[j + 1] - xp[j])

pole_diameter(h) == np_interp(h, heights, diameters)

\* variant of height_from_diameter with the two tables interchanged
height_from_diameter_swapped(d) == np_interp(d, heights, diameters)

height_from_diameter(d) == np_interp(d, diameters, heights)

\* d = C / np.pi, then the inverse interpolation
height_from_circumference(C) ==
    height_from_diameter(MulDiv(C, PI_DEN, PI_NUM))

\* number of points of np.linspace(0, L_free, 100)
NumSamples == 100

\* sum of pole_diameter over the samples lo .. hi of the linspace (halving
\* keeps the evaluation depth logarithmic)
RECURSIVE SumDiameters(_, _, _)
SumDiameters(L_free, lo, hi) ==
    IF lo > hi THEN 0
    ELSE IF lo = hi THEN pole_diameter((lo * L_free) \div (NumSamples - 1))
    ELSE LET mid == (lo + hi) \div 2
         IN  SumDiameters(L_free, lo, mid) + SumDiameters(L_free, mid + 1, hi)

\* d_avg = np.mean(pole_diameter(np.linspace(0, L_free, 100)))
MeanDiameter(L_free) == SumDiameters(L_free, 0, NumSamples - 1) \div NumSamples

\* ------------------------------------------------------------------------
\* utils/pole_est.py : analytical frequency
\* ------------------------------------------------------------------------

\* beta1 = 1.875, in thousandths
BETA1 == 1875

\* sqrt(E / (16 rho)) in 0.1 m/s.  With I = pi/64 d^4 and m = rho pi/4 d^2,
\* E*I/m = E d^2 / (16 rho), so sqrt(E*I/(m*L^4)) = sqrt(E/(16 rho)) d / L^2.
SqrtEOver16Rho == ISqrt(((E_GPa * 100000000) \div (16 * rho)) * 1000)

\* m = rho * (pi/4) * d_avg**2   [g/m]
MassPerLength(d_avg) ==
    MulDiv(MulDiv(d_avg, d_avg, 10000), rho * PI_NUM, 4 * PI_DEN * 100000)

\* omega_n = beta1**2 * sqrt(E*I / (m * L_free**4))   [mrad/s]
OmegaN(d_avg, L_free) ==
    MulDiv(d_avg, MulDiv(SqrtEOver16Rho, BETA1 * BETA1, 2500), L_free * L_free)

\* variant of CableReduction with the mass ratio upside down
CableReduction_inverted(f_n, M_eff, mass_cable) ==
    LET phi == 1
    IN  MulDiv(f_n,
               ISqrt(MulDiv(M_eff + mass_cable * phi * phi, 10000, M_eff)),
               100)

\* f_n * sqrt(M_eff / (M_eff + CABLE_TOTAL_MASS * phi**2)), phi = 1.0
CableReduction(f_n, M_eff, mass_cable) ==
    LET phi == 1
    IN  MulDiv(f_n,
               ISqrt(MulDiv(M_eff, 100000000, M_eff + mass_cable * phi * phi)),
               10000)

\* natural_frequency(L_free) of utils/pole_est.py; mass_cable is the module
\* global CABLE_TOTAL_MASS it reads.
natural_frequency(L_free, mass_cable) ==
    IF L_free <= 0 THEN NaN
    ELSE LET d_avg   == MeanDiameter(L_free)
             m       == MassPerLength(d_avg)
             omega_n == OmegaN(d_avg, L_free)
             f_n     == MulDiv(omega_n, PI_DEN, 2 * PI_NUM)
             M_eff   == MulDiv(m, 23 * L_free, 200000)
         IN  IF mass_cable > 0 THEN CableReduction(f_n, M_eff, mass_cable)
             ELSE f_n

\* np.clip(x, lo, hi)
np_clip(x, lo, hi) == IF x < lo THEN lo ELSE IF x > hi THEN hi ELSE x

\* variant of SupportRatio clipped to [0, 0.9]
SupportRatio_no_floor(L_free, h_support) ==
    np_clip((h_support * 10000) \div L_free, 0, 9000)

\* ratio = np.clip(h_support / L_free, 0.1, 0.9), in 1/10000
SupportRatio(L_free, h_support) ==
    np_clip((h_support * 10000) \div L_free, 1000, 9000)

\* variant of natural_frequency_with_support that softens instead of stiffening
natural_frequency_with_support_softening(L_free, h_support, mass_cable) ==
    IF L_free <= 0 THEN NaN
    ELSE LET f_free == natural_frequency(L_free, mass_cable)
         IN  IF IsNaN(f_free) THEN NaN
             ELSE LET ratio        == SupportRatio(L_free, h_support)
                      stiff_factor == 100000 - 3 * ratio
                  IN  MulDiv(f_free, stiff_factor, 100000)

\* natural_frequency_with_support(L_free, h_support)
natural_frequency_with_support(L_free, h_support, mass_cable) ==
    IF L_free <= 0 THEN NaN
    ELSE LET f_free == natural_frequency(L_free, mass_cable)
         IN  IF IsNaN(f_free) THEN NaN
             ELSE LET ratio        == SupportRatio(L_free, h_support)
                      stiff_factor == 100000 + 3 * ratio
                  IN  MulDiv(f_free, stiff_factor, 100000)

\* ------------------------------------------------------------------------
\* pole.py : prototype natural_frequency (no cable, epsilon guard)
\* ------------------------------------------------------------------------

\* 1e-12 m^4 in LU^4
Eps4 == 16

\* L_free**4 <= 1e-12
Pow4LeqEps(L_free) ==
    L_free * L_free <= 46340 /\ (L_free * L_free) * (L_free * L_free) <= Eps4

pole_natural_frequency(L_free) ==
    IF L_free <= 0 THEN NaN
    ELSE LET d_avg == MeanDiameter(L_free)
         IN  IF Pow4LeqEps(L_free) THEN NaN
             ELSE MulDiv(OmegaN(d_avg, L_free), PI_DEN, 2 * PI_NUM)

\* ------------------------------------------------------------------------
\* utils/pole_det.py : extract_natural_frequency
\* ------------------------------------------------------------------------

\* an axis that was not supplied (ax=None)
NoAxis == <<None>>

RECURSIVE SumSeq(_)
SumSeq(s) == IF Len(s) = 0 THEN 0 ELSE Head(s) + SumSeq(Tail(s))

\* np.sqrt(np.mean(c**2)), in 1/100
Rms(c) == ISqrt((SumSeq([i \in 1..Len(c) |-> c[i] * c[i]]) * 10000) \div Len(c))

\* variant of np_argmax that returns the last index holding the maximum
np_argmax_last(v) ==
    CHOOSE i \in 1..Len(v) :
        /\ \A j \in 1..Len(v) : v[j] <= v[i]
        /\ \A j \in (i + 1)..Len(v) : v[j] < v[i]

\* np.argmax(v): the first index holding the maximum
np_argmax(v) ==
    CHOOSE i \in 1..Len(v) :
        /\ \A j \in 1..Len(v) : v[j] <= v[i]
        /\ \A j \in 1..(i - 1) : v[j] < v[i]

\* a_sig - np.mean(a_sig), carried multiplied by N = len(a_sig) so that it
\* stays exact
Centered(a_sig) ==
    [i \in 1..Len(a_sig) |-> Len(a_sig) * a_sig[i] - SumSeq(a_sig)]

\* cos and sin of 2 pi j / N in 1/100, j = 0..N-1, for N = 1..8
CosTab ==
    << <<100>>,
       <<100, -100>>,
       <<100, -50, -50>>,
       <<100, 0, -100, 0>>,
       <<100, 31, -81, -81, 31>>,
       <<100, 50, -50, -100, -50, 50>>,
       <<100, 62, -22, -90, -90, -22, 62>>,
       <<100, 71, 0, -71, -100, -71, 0, 71>> >>

SinTab ==
    << <<0>>,
       <<0, 0>>,
       <<0, 87, -87>>,
       <<0, 100, 0, -100>>,
       <<0, 95, 59, -59, -95>>,
       <<0, 87, 87, 0, -87, -87>>,
       <<0, 78, 97, 43, -43, -97, -78>>,
       <<0, 71, 100, 71, 0, -71, -100, -71>> >>

\* np.abs(np.fft.rfft(a))[k], k = 0 .. N//2: modulus of sum a[n] e^(-2 pi i k n / N)
RfftAbs(a, k) ==
    LET N  == Len(a)
        re == SumSeq([n \in 1..N |-> a[n] * CosTab[N][((k * (n - 1)) % N) + 1]])
        im == SumSeq([n \in 1..N |-> a[n] * SinTab[N][((k * (n - 1)) % N) + 1]])
    IN  ISqrt(re * re + im * im)

\* spectrum = np.abs(np.fft.rfft(a_sig)), bins 0 .. N//2 at indices 1 .. N//2+1
Spectrum(a_sig) ==
    [b \in 1..((Len(a_sig) \div 2) + 1) |-> RfftAbs(a_sig, b - 1)]

\* np.argsort(v): indices in ascending order of value; equal values keep
\* their index order (insertion sort on arrays this short)
np_argsort(v) ==
    [p \in 1..Len(v) |->
        CHOOSE k \in 1..Len(v) :
            Cardinality({j \in 1..Len(v) :
                            v[j] < v[k] \/ (v[j] = v[k] /\ j < k)}) = p - 1]

\* np.argsort(spectrum_no_dc)[-3:][::-1]
TopThree(spectrum_no_dc) ==
    LET s == np_argsort(spectrum_no_dc)
        B == Len(s)
    IN  [i \in 1..Min(3, B) |-> s[B + 1 - i]]

\* np.fft.rfftfreq(N, d=1/fs)[b-1]   [mHz]
RfftFreq(b, N, fs) == ((b - 1) * fs) \div N

\* extract_natural_frequency(ax, ay, az, fs): an exception, or the three
\* frequencies with the spectrum bins they come from and the axis label
extract_natural_frequency(ax, ay, az, fs) ==
    LET supplied   == <<ax, ay, az>>
        labels     == <<"ax", "ay", "az">>
        present    == SelectSeq(<<1, 2, 3>>, LAMBDA i : supplied[i] # NoAxis)
        components == [i \in 1..Len(present) |-> supplied[present[i]]]
        available  == [i \in 1..Len(present) |-> labels[present[i]]]
    IN  IF Len(components) = 0
        THEN [ok |-> FALSE, err |-> "ValueError: No acceleration components provided."]
        ELSE
        LET n     == CHOOSE m \in {Len(components[i]) : i \in 1..Len(components)} :
                        \A i \in 1..Len(components) : m <= Len(components[i])
            cut   == [i \in 1..Len(components) |-> SubSeq(components[i], 1, n)]
        IN  IF fs = 0 \/ n = 0
            THEN [ok |-> FALSE, err |-> "ZeroDivisionError"]
            ELSE
            LET rms_values     == [i \in 1..Len(cut) |-> Rms(cut[i])]
                dominant_idx   == np_argmax(rms_values)
                a_sig          == Centered(cut[dominant_idx])
                axis_used      == available[dominant_idx]
                N              == Len(a_sig)
                spectrum       == Spectrum(a_sig)
                spectrum_no_dc == [spectrum EXCEPT ![1] = 0]
                peak_indices   == TopThree(spectrum_no_dc)
            IN  IF Len(peak_indices) < 3
                THEN [ok |-> FALSE, err |-> "ValueError: not enough values to unpack"]
                ELSE [ok    |-> TRUE,
                      peaks |-> [i \in 1..3 |-> RfftFreq(peak_indices[i], N, fs)],
                      bins  |-> [i \in 1..3 |-> peak_indices[i] - 1],
                      amps  |-> [i \in 1..3 |-> spectrum_no_dc[peak_indices[i]]],
                      axis  |-> axis_used,
                      used  |-> cut[dominant_idx],
                      N     |-> N]

\* read_sensor_csv(file_path): an exception, or (ax, ay, az, fs).  The file
\* holds a timestamp column [ms] and the columns ax, ay, az.
Median(v) ==
    LET s == np_argsort(v)
        n == Len(v)
    IN  IF n % 2 = 1 THEN v[s[(n + 1) \div 2]]
        ELSE (v[s[n \div 2]] + v[s[(n \div 2) + 1]]) \div 2

read_sensor_csv(file) ==
    IF ~file.exists THEN [ok |-> FALSE, err |-> "FileNotFoundError"]
    ELSE LET timestamps == file.ts
             diff == [i \in 1..(Len(timestamps) - 1) |->
                         timestamps[i + 1] - timestamps[i]]
             fs   == IF Len(diff) = 0 THEN NaN
                     ELSE 1000000 \div Median(diff)
         IN  [ok |-> TRUE, ax |-> file.ax, ay |-> file.ay, az |-> file.az,
              fs |-> fs]

\* ------------------------------------------------------------------------
\* main.py : helpers of main()
\* ------------------------------------------------------------------------

\* an input line that float() rejects with ValueError
NonNumeric == -1999999998

\* truth value of a float-or-None in a Python condition
Truthy(x) == x # None /\ x # 0

\* comparisons of floats: FALSE as soon as one side is nan
FLeq(a, b) == ~IsNaN(a) /\ ~IsNaN(b) /\ a <= b

FGeq(a, b) == ~IsNaN(a) /\ ~IsNaN(b) /\ a >= b

\* abs(x) of a float
FAbs(x) == IF IsNaN(x) THEN NaN ELSE Abs(x)

\* variant of InRange that forgets the lower bound
InRange_upper_only(lo, v, hi) == FLeq(v, hi)

\* C_min <= C_ground <= C_max, L_min <= L_free <= L_max
InRange(lo, v, hi) == FLeq(lo, v) /\ FLeq(v, hi)

\* C_min = np.pi * 0.170, C_max = np.pi * 0.249375   [um]
C_min == MulDiv(170000, PI_NUM, PI_DEN)

C_max == MulDiv(249375, PI_NUM, PI_DEN)

\* L_min, L_max = 0.5, 9.0   [LU]
L_min == 1000

L_max == 18000

\* min(f_peaks, key=lambda f: abs(f - target)): the first element whose key
\* is minimal
RECURSIVE MinByKey(_, _, _)
MinByKey(peaks, target, best) ==
    IF Len(peaks) = 0 THEN best
    ELSE MinByKey(Tail(peaks), target,
                  IF Abs(Head(peaks) - target) < Abs(best - target)
                  THEN Head(peaks) ELSE best)

\* variant of closest_peak that scans the peaks from the last to the first
closest_peak_last_wins(target, f_peaks) ==
    IF ~IsNaN(target)
    THEN LET n == Len(f_peaks)
             rev == [i \in 1..n |-> f_peaks[n + 1 - i]]
         IN  MinByKey(Tail(rev), target, Head(rev))
    ELSE NaN

closest_peak(target, f_peaks) ==
    IF ~IsNaN(target) THEN MinByKey(Tail(f_peaks), target, Head(f_peaks))
    ELSE NaN

\* ((measured - theoretical) / theoretical) * 100   [0.01 %]
Deviation(measured, theoretical) ==
    IF IsNaN(measured) \/ IsNaN(theoretical) THEN NaN
    ELSE IF measured >= theoretical
         THEN MulDiv(measured - theoretical, 10000, theoretical)
         ELSE 0 - MulDiv(theoretical - measured, 10000, theoretical)

\* CONFIG.get("thresholds", {...}) when the configuration has no such entry
DefaultThresholds ==
    [minor_max |-> 500, moderate_max |-> 1500, severe_min |-> 2000]

\* variant of Classify whose first test is a strict comparison
Classify_strict_minor(diff_percent, thr) ==
    LET a == FAbs(diff_percent)
    IN  IF "minor_max" \notin DOMAIN thr THEN "KeyError"
        ELSE IF ~IsNaN(a) /\ a < thr["minor_max"] THEN "Minor"
        ELSE IF "moderate_max" \notin DOMAIN thr THEN "KeyError"
        ELSE IF FLeq(a, thr["moderate_max"]) THEN "Moderate"
        ELSE IF "severe_min" \notin DOMAIN thr THEN "KeyError"
        ELSE IF FGeq(a, thr["severe_min"]) THEN "Severe"
        ELSE "Unclassified"

\* the if/elif chain of step 9: the level, or the KeyError of a missing bound
Classify(diff_percent, thr) ==
    LET a == FAbs(diff_percent)
    IN  IF "minor_max" \notin DOMAIN thr THEN "KeyError"
        ELSE IF FLeq(a, thr["minor_max"]) THEN "Minor"
        ELSE IF "moderate_max" \notin DOMAIN thr THEN "KeyError"
        ELSE IF FLeq(a, thr["moderate_max"]) THEN "Moderate"
        ELSE IF "severe_min" \notin DOMAIN thr THEN "KeyError"
        ELSE IF FGeq(a, thr["severe_min"]) THEN "Severe"
        ELSE "Unclassified"

Levels == {"Minor", "Moderate", "Severe", "Unclassified"}

\* ------------------------------------------------------------------------
\* State
\* ------------------------------------------------------------------------

VARIABLES
    pc,             \* position of main(): the step about to run
    sensor_file,    \* content of DATA_FILE (data/sensor_data.csv)
    results,        \* content of RESULTS_FILE
    THR,            \* module global THR of main.py
    cable,          \* CONFIG["cable"] of utils/pole_est.py
    choice,         \* answer to "fetch new sensor data?"
    has_support,    \* answer to "lateral support?"
    h_support,      \* support height, None when absent or not numeric
    mode,           \* input type selected
    entered,        \* the line typed for the circumference or the height
    C_ground,
    L_free,
    data,           \* (ax, ay, az, fs) returned by read_sensor_csv
    f_peaks,        \* [f1, f2, f3]
    peak_bins,      \* spectrum bins of f1, f2, f3
    f_free,
    f_support,
    match_free,
    match_support,
    diff_percent,
    diff_label,
    level,
    calls,          \* functions main() has invoked so far
    reported,       \* error messages main() has printed
    exc,            \* the exception that ended main(), "" if none
    call            \* latest direct call of a function: arguments and result

\* ------------------------------------------------------------------------
\* The environment of main(): files, configuration, console input
\* ------------------------------------------------------------------------

NoFile ==
    [exists |-> FALSE, headers |-> 0, ts |-> <<>>, ax |-> <<>>, ay |-> <<>>,
     az |-> <<>>]

\* six samples at 4 Hz, ax alternating (2 Hz), ay and az at rest
FileTone ==
    [exists |-> TRUE, headers |-> 1, ts |-> <<0, 250, 500, 750, 1000, 1250>>,
     ax |-> <<1, -1, 1, -1, 1, -1>>, ay |-> <<0, 0, 0, 0, 0, 0>>,
     az |-> <<0, 0, 0, 0, 0, 0>>]

\* four samples at 200 Hz
FileShort ==
    [exists |-> TRUE, headers |-> 1, ts |-> <<0, 5, 10, 15>>,
     ax |-> <<1, -1, 1, -1>>, ay |-> <<0, 1, 0, -1>>, az |-> <<1, 1, 1, 1>>]

SensorFiles == {NoFile, FileTone, FileShort}

\* the rows a successful request returns
Payload ==
    [ts |-> <<1500, 1750>>, ax |-> <<1, -1>>, ay |-> <<0, 0>>, az |-> <<0, 0>>]

\* one row, as a second successful request returns it
PayloadOne == [ts |-> <<2000>>, ax |-> <<1>>, ay |-> <<0>>, az |-> <<0>>]

EmptyRows == [ts |-> <<>>, ax |-> <<>>, ay |-> <<>>, az |-> <<>>]

\* what requests.get(api_url) can bring: an exception, a status that
\* raise_for_status() rejects, a body that is not JSON, a JSON body that is
\* not a list, an empty list, a list of rows
Responses ==
    {[kind |-> "request_error", list |-> FALSE, rows |-> EmptyRows],
     [kind |-> "http_error", list |-> FALSE, rows |-> EmptyRows],
     [kind |-> "not_json", list |-> FALSE, rows |-> EmptyRows],
     [kind |-> "json", list |-> FALSE, rows |-> EmptyRows],
     [kind |-> "json", list |-> TRUE, rows |-> EmptyRows],
     [kind |-> "json", list |-> TRUE, rows |-> Payload],
     [kind |-> "json", list |-> TRUE, rows |-> PayloadOne]}

\* variant of AppendRows that writes the header line on every call
AppendRows_always_header(file, rows) ==
    [exists |-> TRUE, headers |-> file.headers + 1,
     ts |-> file.ts \o rows.ts, ax |-> file.ax \o rows.ax,
     ay |-> file.ay \o rows.ay, az |-> file.az \o rows.az]

\* df_new.to_csv(DATA_FILE, mode="a" or "w", header=not exists): the rows
\* follow the existing ones, the header line is written for a new file
AppendRows(file, rows) ==
    [exists |-> TRUE, headers |-> IF file.exists THEN file.headers ELSE 1,
     ts |-> file.ts \o rows.ts, ax |-> file.ax \o rows.ax,
     ay |-> file.ay \o rows.ay, az |-> file.az \o rows.az]

\* fetch_sensor_data(url): the value returned and the file afterwards
fetch_sensor_data(response, file) ==
    IF response.kind \in {"request_error", "http_error"}
    THEN [ret |-> FALSE, file |-> file]
    ELSE IF response.kind = "not_json"
    THEN [ret |-> FALSE, file |-> file]
    ELSE IF ~response.list \/ Len(response.rows.ts) = 0
    THEN [ret |-> FALSE, file |-> file]
    ELSE [ret |-> TRUE, file |-> AppendRows(file, response.rows)]

\* the file after fetch_sensor_data(url), whatever the endpoint answers
FetchOutcomes(file) == {fetch_sensor_data(r, file).file : r \in Responses}

ThresholdConfigs == {DefaultThresholds, [minor_max |-> 300]}

CableConfigs ==
    {[linear_mass |-> 0, effective_length |-> 10, attachment_offset |-> 0],
     [linear_mass |-> 500, effective_length |-> 10, attachment_offset |-> 0],
     [linear_mass |-> 500, effective_length |-> 10, attachment_offset |-> 600]}

\* CABLE_TOTAL_MASS = CABLE_MASS_PER_M * CABLE_LENGTH_EFFECTIVE   [g]
CABLE_TOTAL_MASS(cfg) == cfg.linear_mass * cfg.effective_length

\* lines typed for the support height [LU]
SupportInputs == {NonNumeric, NaN, 0, -1000, 3000, 13500}

\* lines typed for the circumference [um]
CircumferenceInputs ==
    {NonNumeric, NaN, C_min - 1, C_min, 600000, 751000, C_max, C_max + 1}

\* lines typed for the height above ground [LU]
HeightInputs ==
    {NonNumeric, NaN, L_min - 1, L_min, 15000, 16400, L_max, L_max + 1}

ModeInputs == {"1", "2", "3"}

\* a record already stored in RESULTS_FILE
OldRecord == [timestamp |-> 0, damage_level |-> "Minor"]

\* what a JSON file can hold: nothing (no file), text that json.load
\* rejects, one JSON value that is not a list, or a JSON list
AbsentFile == [kind |-> "absent"]

TextFile == [kind |-> "text"]

ValueFile(v) == [kind |-> "value", value |-> v]

ListFile(items) == [kind |-> "list", items |-> items]

NoData == [ax |-> NoAxis, ay |-> NoAxis, az |-> NoAxis, fs |-> None]

NoCall == [fn |-> "none"]

\* ------------------------------------------------------------------------
\* main.py : main()
\* ------------------------------------------------------------------------

cfgvars == <<THR, cable>>

inputvars == <<choice, has_support, h_support, mode, entered>>

geomvars == <<C_ground, L_free>>

fftvars == <<data, f_peaks, peak_bins>>

modelvars == <<f_free, f_support, match_free, match_support>>

diagvars == <<diff_percent, diff_label, level>>

directvars == <<call>>

vars == <<pc, sensor_file, results, THR, cable, choice, has_support,
          h_support, mode, entered, C_ground, L_free, data, f_peaks,
          peak_bins, f_free, f_support, match_free, match_support,
          diff_percent, diff_label, level, calls, reported, exc, call>>

\* state of the local variables of main() before it runs
MainLocalsInit ==
    /\ pc = "start"
    /\ choice = "" /\ has_support = "" /\ h_support = None
    /\ mode = "" /\ entered = None
    /\ C_ground = None /\ L_free = None
    /\ data = NoData /\ f_peaks = <<>> /\ peak_bins = <<>>
    /\ f_free = None /\ f_support = None
    /\ match_free = None /\ match_support = None
    /\ diff_percent = None /\ diff_label = "" /\ level = ""
    /\ calls = {} /\ reported = {} /\ exc = ""

Init ==
    /\ MainLocalsInit
    /\ sensor_file \in SensorFiles
    /\ results = ListFile(<<OldRecord>>)
    /\ THR \in ThresholdConfigs
    /\ cable \in CableConfigs
    /\ call = NoCall

\* Step 0: ask whether to fetch; fetch_sensor_data(url) when the answer is "y"
AskFetch ==
    /\ pc = "start"
    /\ \E c \in {"y", "n"} :
          /\ choice' = c
          /\ IF c = "y"
             THEN /\ sensor_file' \in FetchOutcomes(sensor_file)
                  /\ calls' = calls \cup {"fetch_sensor_data"}
             ELSE UNCHANGED <<sensor_file, calls>>
    /\ pc' = "support"
    /\ UNCHANGED <<results, cfgvars, has_support, h_support, mode, entered,
                   geomvars, fftvars, modelvars, diagvars, reported, exc,
                   directvars>>

\* Steps 1-2: print the assumptions, ask for the lateral support
AskSupport ==
    /\ pc = "support"
    /\ \E hs \in {"y", "n"}, line \in SupportInputs :
          /\ has_support' = hs
          /\ (hs = "n") => (line = NonNumeric)
          /\ h_support' = IF hs = "y" /\ line # NonNumeric THEN line ELSE None
          /\ reported' = IF hs = "y" /\ line = NonNumeric
                         THEN reported \cup {"Invalid numeric value for support height."}
                         ELSE reported
    /\ calls' = calls \cup {"print_material_assumptions"}
    /\ pc' = "geometry"
    /\ UNCHANGED <<sensor_file, results, cfgvars, choice, mode, entered,
                   geomvars, fftvars, modelvars, diagvars, exc, directvars>>

\* Step 3: input type and value; every rejection returns from main()
AskGeometry ==
    /\ pc = "geometry"
    /\ \E m \in ModeInputs :
          /\ mode' = m
          /\ IF m = "1"
             THEN \E line \in CircumferenceInputs :
                    /\ entered' = line
                    /\ IF line = NonNumeric
                       THEN /\ reported' = reported \cup {"Invalid numeric input for circumference."}
                            /\ pc' = "returned"
                            /\ UNCHANGED <<geomvars, calls>>
                       ELSE IF ~InRange(C_min, line, C_max)
                       THEN /\ reported' = reported \cup {"Invalid circumference."}
                            /\ C_ground' = line
                            /\ pc' = "returned"
                            /\ UNCHANGED <<L_free, calls>>
                       ELSE /\ C_ground' = line
                            /\ L_free' = height_from_circumference(line)
                            /\ calls' = calls \cup {"height_from_circumference"}
                            /\ pc' = "load"
                            /\ UNCHANGED reported
             ELSE IF m = "2"
             THEN \E line \in HeightInputs :
                    /\ entered' = line
                    /\ IF line = NonNumeric
                       THEN /\ reported' = reported \cup {"Invalid numeric input for height."}
                            /\ pc' = "returned"
                            /\ UNCHANGED <<geomvars, calls>>
                       ELSE IF ~InRange(L_min, line, L_max)
                       THEN /\ reported' = reported \cup {"Invalid height."}
                            /\ L_free' = line
                            /\ pc' = "returned"
                            /\ UNCHANGED <<C_ground, calls>>
                       ELSE /\ L_free' = line
                            /\ C_ground' = None
                            /\ pc' = "load"
                            /\ UNCHANGED <<reported, calls>>
             ELSE /\ reported' = reported \cup {"Invalid selection."}
                  /\ pc' = "returned"
                  /\ UNCHANGED <<entered, geomvars, calls>>
    /\ UNCHANGED <<sensor_file, results, cfgvars, choice, has_support,
                   h_support, fftvars, modelvars, diagvars, exc, directvars>>

\* Step 4: ax, ay, az, fs = read_sensor_csv(DATA_FILE)
LoadData ==
    /\ pc = "load"
    /\ calls' = calls \cup {"read_sensor_csv"}
    /\ LET r == read_sensor_csv(sensor_file)
       IN  IF r.ok
           THEN /\ data' = [ax |-> r.ax, ay |-> r.ay, az |-> r.az, fs |-> r.fs]
                /\ pc' = "fft"
                /\ UNCHANGED exc
           ELSE /\ exc' = r.err
                /\ pc' = "crashed"
                /\ UNCHANGED data
    /\ UNCHANGED <<sensor_file, results, cfgvars, inputvars, geomvars,
                   f_peaks, peak_bins, modelvars, diagvars, reported,
                   directvars>>

\* Step 5: (f1, f2, f3), plot_path = extract_natural_frequency(ax, ay, az, fs)
ExtractPeaks ==
    /\ pc = "fft"
    /\ calls' = calls \cup {"extract_natural_frequency"}
    /\ LET r == extract_natural_frequency(data.ax, data.ay, data.az, data.fs)
       IN  IF r.ok
           THEN /\ f_peaks' = r.peaks
                /\ peak_bins' = r.bins
                /\ pc' = "analytical"
                /\ UNCHANGED exc
           ELSE /\ exc' = r.err
                /\ pc' = "crashed"
                /\ UNCHANGED <<f_peaks, peak_bins>>
    /\ UNCHANGED <<sensor_file, results, cfgvars, inputvars, geomvars, data,
                   modelvars, diagvars, reported, directvars>>

\* variant of SupportRequested that accepts every non-zero height
SupportRequested_any_height(hs, h) == hs = "y" /\ Truthy(h) /\ ~IsNaN(h)

\* has_support == "y" and h_support and h_support > 0
SupportRequested(hs, h) == hs = "y" /\ Truthy(h) /\ ~IsNaN(h) /\ h > 0

\* Step 6: analytical frequencies
Analytical ==
    /\ pc = "analytical"
    /\ f_free' = natural_frequency(L_free, CABLE_TOTAL_MASS(cable))
    /\ IF SupportRequested(has_support, h_support)
       THEN /\ f_support' = natural_frequency_with_support(
                                L_free, h_support, CABLE_TOTAL_MASS(cable))
            /\ calls' = calls \cup {"natural_frequency",
                                    "natural_frequency_with_support"}
       ELSE /\ f_support' = None
            /\ calls' = calls \cup {"natural_frequency"}
    /\ pc' = "match"
    /\ UNCHANGED <<sensor_file, results, cfgvars, inputvars, geomvars,
                   fftvars, match_free, match_support, diagvars, reported,
                   exc, directvars>>

\* Step 7: closest FFT peaks
Match ==
    /\ pc = "match"
    /\ match_free' = closest_peak(f_free, f_peaks)
    /\ match_support' = IF Truthy(f_support)
                        THEN closest_peak(f_support, f_peaks) ELSE None
    /\ calls' = calls \cup {"closest_peak"}
    /\ pc' = "classify"
    /\ UNCHANGED <<sensor_file, results, cfgvars, inputvars, geomvars,
                   fftvars, f_free, f_support, diagvars, reported, exc,
                   directvars>>

\* Steps 8-9: deviation of the analysed mode and its damage level
ClassifyStep ==
    /\ pc = "classify"
    /\ LET d == IF Truthy(f_support) THEN Deviation(match_support, f_support)
                ELSE Deviation(match_free, f_free)
           lv == Classify(d, THR)
       IN  /\ diff_percent' = d
           /\ diff_label' = IF Truthy(f_support) THEN "supported-side"
                            ELSE "free-side"
           /\ IF lv = "KeyError"
              THEN /\ exc' = "KeyError"
                   /\ pc' = "crashed"
                   /\ UNCHANGED level
              ELSE /\ level' = lv
                   /\ pc' = "save"
                   /\ UNCHANGED exc
    /\ calls' = calls \cup {"classification"}
    /\ UNCHANGED <<sensor_file, results, cfgvars, inputvars, geomvars,
                   fftvars, modelvars, reported, directvars>>

\* the record of step 10; round(x, 3) and round(x, 2) keep the mHz and the
\* 0.01 % the model carries
ResultRecord ==
    [timestamp |-> Len(results.items),
     input_type |-> IF mode = "1" THEN "circumference" ELSE "height",
     C_ground_m |-> C_ground,
     L_free_m |-> (L_free + 10) \div 20,
     has_support |-> (has_support = "y"),
     support_height_m |-> h_support,
     fs_Hz |-> data.fs,
     fft_peaks_Hz |-> f_peaks,
     free_frequency_Hz |-> f_free,
     supported_frequency_Hz |-> IF Truthy(f_support) THEN f_support ELSE None,
     matched_free_Hz |-> match_free,
     matched_free_difference_percent |-> Deviation(match_free, f_free),
     matched_support_Hz |-> IF Truthy(f_support) THEN match_support ELSE None,
     matched_support_difference_percent |->
         IF Truthy(f_support) THEN Deviation(match_support, f_support)
         ELSE None,
     damage_level |-> level]

\* the list `data` that append_json_record builds from the file: [] when
\* the path does not exist or json.load raises JSONDecodeError, [data] when
\* the value loaded is not a list
LoadedData(file) ==
    IF file.kind = "absent" THEN <<>>
    ELSE IF file.kind = "text" THEN <<>>
    ELSE IF file.kind = "value" THEN <<file.value>>
    ELSE file.items

\* variant of append_json_record that keeps only a stored list
append_json_record_list_only(record, file) ==
    ListFile(Append(IF file.kind = "list" THEN file.items ELSE <<>>, record))

\* append_json_record(record, path): data.append(record), then
\* json.dump(data) over the file
append_json_record(record, file) == ListFile(Append(LoadedData(file), record))

\* Step 10: save the result
Save ==
    /\ pc = "save"
    /\ results' = append_json_record(ResultRecord, results)
    /\ calls' = calls \cup {"append_json_record"}
    /\ pc' = "done"
    /\ UNCHANGED <<sensor_file, cfgvars, inputvars, geomvars, fftvars,
                   modelvars, diagvars, reported, exc, directvars>>

Next ==
    \/ AskFetch
    \/ AskSupport
    \/ AskGeometry
    \/ LoadData
    \/ ExtractPeaks
    \/ Analytical
    \/ Match
    \/ ClassifyStep
    \/ Save

Spec == Init /\ [][Next]_vars

\* ------------------------------------------------------------------------
\* Direct calls of the pure functions (main() is not running)
\* ------------------------------------------------------------------------

mainvars == <<pc, sensor_file, results, THR, cable, choice, has_support,
              h_support, mode, entered, C_ground, L_free, data, f_peaks,
              peak_bins, f_free, f_support, match_free, match_support,
              diff_percent, diff_label, level, calls, reported, exc>>

NoCable == [linear_mass |-> 0, effective_length |-> 10, attachment_offset |-> 0]

InitDirect ==
    /\ MainLocalsInit
    /\ sensor_file = NoFile
    /\ results = AbsentFile
    /\ THR = DefaultThresholds
    /\ cable = NoCable
    /\ call = NoCall

\* --- the classification chain of main.py:194-211 -------------------------

\* largest |deviation| tried, in percent
MaxDev == 25

DeviationInputs ==
    {100 * k : k \in (0 - MaxDev)..MaxDev}
      \cup {NaN, 499, 501, 1499, 1501, 1990, 1999, 2001,
            -499, -501, -1499, -1501, -1990, -1999, -2001}

ThresholdInputs ==
    {DefaultThresholds,
     [minor_max |-> 1500, moderate_max |-> 500, severe_min |-> 2000],
     [minor_max |-> 500, moderate_max |-> 2000, severe_min |-> 1500],
     [minor_max |-> 2000, moderate_max |-> 1500, severe_min |-> 500],
     [minor_max |-> 1000, moderate_max |-> 1000, severe_min |-> 1000],
     [minor_max |-> 300, moderate_max |-> 1200, severe_min |-> 2500],
     [minor_max |-> 300],
     [moderate_max |-> 1000, severe_min |-> 1500],
     [minor_max |-> 300, severe_min |-> 2500]}

CallClassify ==
    /\ call = NoCall
    /\ \E d \in DeviationInputs, t \in ThresholdInputs :
          call' = [fn |-> "classify", diff_percent |-> d, thr |-> t,
                   level |-> Classify(d, t)]
    /\ UNCHANGED mainvars

NextClassify == CallClassify

SpecClassify == InitDirect /\ [][NextClassify]_vars

\* --- closest_peak of main.py:166-171 --------------------------------------

\* peaks tried are the multiples of 1 Hz up to MaxPeak
MaxPeak == 3

PeakInputs == {1000 * k : k \in (0 - 1)..MaxPeak}

TargetInputs == {NaN} \cup {500 * k : k \in 0..(2 * MaxPeak + 1)} \cup {2022}

CallClosestPeak ==
    /\ call = NoCall
    /\ \E t \in TargetInputs, p1 \in PeakInputs, p2 \in PeakInputs,
          p3 \in PeakInputs :
          call' = [fn |-> "closest_peak", target |-> t,
                   f_peaks |-> <<p1, p2, p3>>,
                   res |-> closest_peak(t, <<p1, p2, p3>>)]
    /\ UNCHANGED mainvars

NextMatch == CallClosestPeak

SpecMatch == InitDirect /\ [][NextMatch]_vars

\* --- extract_natural_frequency of utils/pole_det.py ------------------------

AxisInputs ==
    {NoAxis,
     <<1, -1>>,
     <<1, -1, 1, -1>>,
     <<0, 1, 0, -1, 0>>,
     <<1, 1, 1, 1, 1, 1>>,
     <<2, 1, -1, -2, -1, 1>>,
     <<1, 0, -1, 0, 1, 0, -1, 0>>}

\* sampling frequencies [mHz]
FsInputs == {200000, 0, -200000}

CallExtract ==
    /\ call = NoCall
    /\ \E x \in AxisInputs, y \in AxisInputs, z \in AxisInputs,
          f \in FsInputs :
          call' = [fn |-> "extract_natural_frequency",
                   ax |-> x, ay |-> y, az |-> z, fs |-> f,
                   res |-> extract_natural_frequency(x, y, z, f)]
    /\ UNCHANGED mainvars

NextExtract == CallExtract

SpecExtract == InitDirect /\ [][NextExtract]_vars

\* --- the beam model of utils/pole_est.py and pole.py -----------------------

\* free lengths [LU]: negative, zero, below and above 1 mm, 0.5 m .. 9 m
LengthInputs == {-1, 0, 1, 3, 1000, 15000, 18000}

\* largest cable mass of the 1 kg series
MaxCableKg == 3

\* attached cable masses [g]
CableMassInputs == {1000 * k : k \in 0..MaxCableKg} \cup {20000}

\* number of steps the support height takes between 0 and L_free
HSteps == 10

\* support heights [LU] tried for a free length: below 0, 0 .. L, above L
SupportHeights(L) ==
    IF L <= 0 THEN {0, 1000}
    ELSE {(k * L) \div HSteps : k \in (0 - 1)..(HSteps + 1)}

CallNaturalFrequency ==
    /\ call = NoCall
    /\ \E L \in LengthInputs, mc \in CableMassInputs :
          call' = [fn |-> "natural_frequency", L_free |-> L,
                   h_support |-> None, mass |-> mc,
                   res |-> natural_frequency(L, mc)]
    /\ UNCHANGED mainvars

CallPoleNaturalFrequency ==
    /\ call = NoCall
    /\ \E L \in LengthInputs :
          call' = [fn |-> "pole.natural_frequency", L_free |-> L,
                   h_support |-> None, mass |-> 0,
                   res |-> pole_natural_frequency(L)]
    /\ UNCHANGED mainvars

CallNaturalFrequencyWithSupport ==
    /\ call = NoCall
    /\ \E L \in LengthInputs, mc \in CableMassInputs :
          \E h \in SupportHeights(L) :
             call' = [fn |-> "natural_frequency_with_support", L_free |-> L,
                      h_support |-> h, mass |-> mc,
                      res |-> natural_frequency_with_support(L, h, mc)]
    /\ UNCHANGED mainvars

NextFreq ==
    \/ CallNaturalFrequency
    \/ CallPoleNaturalFrequency
    \/ CallNaturalFrequencyWithSupport

SpecFreq == InitDirect /\ [][NextFreq]_vars

\* ------------------------------------------------------------------------
\* Properties of main()  (specification Spec)
\* ------------------------------------------------------------------------

AllThresholdKeys == {"minor_max", "moderate_max", "severe_min"}

\* the steps of main() that come after the geometry input
ModelWork ==
    {"read_sensor_csv", "extract_natural_frequency", "natural_frequency",
     "natural_frequency_with_support", "closest_peak", "classification",
     "append_json_record"}

\* the geometry answers main() has to reject, stated from the prompt texts
RejectedGeometry ==
    \/ mode \notin {"1", "2"}
    \/ entered = NonNumeric
    \/ entered = NaN
    \/ mode = "1" /\ (entered < C_min \/ entered > C_max)
    \/ mode = "2" /\ (entered < L_min \/ entered > L_max)

C3_RejectionPrecedesModelWork ==
    (pc \notin {"start", "support", "geometry"}) =>
        /\ RejectedGeometry =>
              /\ pc = "returned"
              /\ calls \cap ModelWork = {}
              /\ results = ListFile(<<OldRecord>>)
              /\ level = ""
              /\ reported \cap {"Invalid selection.",
                                "Invalid numeric input for circumference.",
                                "Invalid numeric input for height.",
                                "Invalid circumference.",
                                "Invalid height."} # {}
        /\ pc = "returned" => RejectedGeometry

\* a circumference just below the accepted range has been entered and
\* main() has returned
C3_Witness ==
    /\ pc = "returned"
    /\ mode = "1"
    /\ entered = C_min - 1
    /\ "Invalid circumference." \in reported

\* ------------------------------------------------------------------------
\* Properties of the classification chain  (specification SpecClassify)
\* ------------------------------------------------------------------------

\* C1: the classification is the ordered first-match function of
\* a = |deviation| and the thresholds: Minor if a <= minor_max, otherwise
\* Moderate if a <= moderate_max, otherwise Severe if a >= severe_min,
\* otherwise Unclassified; it is exactly one of the four levels for every
\* finite deviation and every threshold triple, d and -d give the same
\* level, and the thresholds (5, 15, 20) give 5.0 -> Minor,
\* 15.0 -> Moderate, 19.9 -> Unclassified, 20.0 -> Severe.
C1_FirstMatch ==
    (/\ call.fn = "classify"
     /\ ~IsNaN(call.diff_percent)
     /\ DOMAIN call.thr = AllThresholdKeys) =>
        LET a == Abs(call.diff_percent)
            t == call.thr
        IN  /\ call.level \in Levels
            /\ (call.level = "Minor") <=> (a <= t.minor_max)
            /\ (call.level = "Moderate") <=>
                   (a > t.minor_max /\ a <= t.moderate_max)
            /\ (call.level = "Severe") <=>
                   (a > t.minor_max /\ a > t.moderate_max /\ a >= t.severe_min)
            /\ (call.level = "Unclassified") <=>
                   (a > t.minor_max /\ a > t.moderate_max /\ a < t.severe_min)
            /\ Classify(0 - call.diff_percent, t) = call.level
            /\ (t = DefaultThresholds) =>
                   /\ (a = 500) => (call.level = "Minor")
                   /\ (a = 1500) => (call.level = "Moderate")
                   /\ (a = 1990) => (call.level = "Unclassified")
                   /\ (a = 2000) => (call.level = "Severe")

\* a deviation of -5.0 % on the first boundary has been classified with
\* the thresholds (5, 15, 20)
C1_Witness ==
    /\ call.fn = "classify"
    /\ call.thr = DefaultThresholds
    /\ call.diff_percent = -500
    /\ call.level = "Minor"

\* ------------------------------------------------------------------------
\* Properties of closest_peak  (specification SpecMatch)
\* ------------------------------------------------------------------------

\* |peak - target| of the i-th peak of a call
PeakDistance(i) == Abs(call.f_peaks[i] - call.target)

\* C6: for a non-NaN target closest_peak returns the element of [f1, f2, f3]
\* at the first index whose absolute difference to the target is minimal
\* (so of two equidistant peaks the earlier one); for a NaN target it
\* returns NaN.
C6_ClosestFirst ==
    (call.fn = "closest_peak") =>
        IF IsNaN(call.target) THEN IsNaN(call.res)
        ELSE \E i \in 1..Len(call.f_peaks) :
                /\ call.res = call.f_peaks[i]
                /\ \A j \in 1..Len(call.f_peaks) :
                      PeakDistance(i) <= PeakDistance(j)
                /\ \A j \in 1..(i - 1) : PeakDistance(i) < PeakDistance(j)

\* 1.5 Hz lies between the equidistant peaks 2 Hz and 1 Hz; the earlier
\* one is returned
C6_Witness ==
    /\ call.fn = "closest_peak"
    /\ call.target = 1500
    /\ call.f_peaks = <<3000, 2000, 1000>>
    /\ call.res = 2000

\* ------------------------------------------------------------------------
\* Properties of extract_natural_frequency  (specification SpecExtract)
\* ------------------------------------------------------------------------

\* the axes of a call that are not None
SuppliedAxes == {c \in {call.ax, call.ay, call.az} : c # NoAxis}

\* n = min(len(c) for c in available)
TruncatedLength ==
    CHOOSE n \in {Len(c) : c \in SuppliedAxes} :
        \A c \in SuppliedAxes : n <= Len(c)

\* the shortest signal whose one-sided spectrum has three bins besides DC
MinSamples == 2 * 3

\* C4: extract_natural_frequency never returns the zero-frequency (DC)
\* bin: whenever it returns, none of f1, f2, f3 is spectrum bin 0 and none
\* is 0 Hz.
C4_NeverDC ==
    (call.fn = "extract_natural_frequency" /\ call.res.ok) =>
        \A i \in 1..3 :
            /\ call.res.bins[i] # 0
            /\ call.res.peaks[i] # 0

\* C5: extract_natural_frequency fails, returning no peak set, when no axis
\* is supplied, when fs <= 0, or when the truncated signal has fewer than
\* the MinSamples samples that give three non-DC spectral bins.
C5_FailsOnBadInput ==
    (/\ call.fn = "extract_natural_frequency"
     /\ \/ SuppliedAxes = {}
        \/ call.fs <= 0
        \/ TruncatedLength < MinSamples) =>
        ~call.res.ok

\* ------------------------------------------------------------------------
\* Properties of the beam model  (specification SpecFreq)
\* ------------------------------------------------------------------------

\* a frequency that is a number greater than zero
FinitePositive(f) == ~IsNaN(f) /\ f # None /\ f > 0 /\ f <= SatMax

\* C7: natural_frequency(L) is the NaN sentinel whenever L <= 0 or L^4 is
\* below the epsilon 1e-12, and a finite positive frequency otherwise, in
\* utils/pole_est.py as well as in pole.py.
C7_SentinelIffDegenerate ==
    (call.fn \in {"natural_frequency", "pole.natural_frequency"}) =>
        IF call.L_free <= 0 \/ call.L_free * call.L_free * call.L_free
                                  * call.L_free < Eps4
        THEN IsNaN(call.res)
        ELSE FinitePositive(call.res)

\* the support heights of the grid that the clamp maps to 0.1 and to 0.9
AtOrBelowTenth(L, h) == 10 * h <= L
AtOrAboveNineTenths(L, h) == 10 * h >= 9 * L

Interior(L, h) == 10 * h > L /\ 10 * h < 9 * L

\* C9: for fixed L > 0 with computable f_free,
\* natural_frequency_with_support(L, h) is strictly increasing in h on
\* (0.1*L, 0.9*L), and exceeds f_free there.
C9_StrictlyIncreasing ==
    (/\ call.fn = "natural_frequency_with_support"
     /\ call.L_free > 0
     /\ ~IsNaN(call.res)
     /\ Interior(call.L_free, call.h_support)) =>
        /\ call.res > natural_frequency(call.L_free, call.mass)
        /\ \A h2 \in SupportHeights(call.L_free) :
              (Interior(call.L_free, h2) /\ call.h_support < h2) =>
                  call.res < natural_frequency_with_support(
                                 call.L_free, h2, call.mass)

\* a 9 m pole supported at 0.3*L, with higher interior supports to compare
C9_Witness ==
    /\ call.fn = "natural_frequency_with_support"
    /\ call.L_free = 18000
    /\ call.h_support = 5400
    /\ Interior(18000, 12600) /\ 12600 \in SupportHeights(18000)
    /\ FinitePositive(call.res)

\* C10: with L, geometry and material fixed, natural_frequency is strictly
\* decreasing in the cable total mass for masses > 0, never above the
\* frequency without cable, and with mass 0 it is the frequency of the
\* pole without any cable term.
C10_DecreasingInCableMass ==
    (call.fn = "natural_frequency" /\ call.L_free > 0) =>
        /\ call.res <= natural_frequency(call.L_free, 0)
        /\ (call.mass > 0) =>
              /\ call.res < natural_frequency(call.L_free, 0)
              /\ \A m2 \in CableMassInputs :
                    (call.mass < m2) =>
                        natural_frequency(call.L_free, m2) < call.res
        /\ (call.mass = 0 /\ ~Pow4LeqEps(call.L_free)) =>
              call.res = pole_natural_frequency(call.L_free)

\* a 7.5 m pole carrying a 2 kg cable, with heavier cables to compare
C10_Witness ==
    /\ call.fn = "natural_frequency"
    /\ call.L_free = 15000
    /\ call.mass = 2000
    /\ 20000 \in CableMassInputs
    /\ FinitePositive(call.res)

\* ------------------------------------------------------------------------
\* Properties of the cable attachment  (specification Spec)
\* ------------------------------------------------------------------------

\* the configuration with the same cable attached at the tip
TipAttached(cfg) == [cfg EXCEPT !.attachment_offset = 0]

\* C11: with a cable mass > 0 the reduction uses the mode shape at the
\* attachment point x = L - attachment_offset: a cable attached below the
\* tip (0 < attachment_offset < L) lowers f_free less than the same cable
\* attached at the tip, so the two configurations give different
\* frequencies.
C11_AttachmentBelowTipReducesLess ==
    (/\ f_free # None
     /\ ~IsNaN(f_free)
     /\ CABLE_TOTAL_MASS(cable) > 0
     /\ cable.attachment_offset > 0
     /\ cable.attachment_offset < L_free) =>
        /\ TipAttached(cable) \in CableConfigs
        /\ f_free > natural_frequency(L_free,
                                      CABLE_TOTAL_MASS(TipAttached(cable)))

\* ------------------------------------------------------------------------
\* Properties of the threshold configuration  (specification Spec)
\* ------------------------------------------------------------------------

\* the thresholds entry with every missing bound taken from the defaults
EffectiveThresholds(thr) ==
    [k \in AllThresholdKeys |->
        IF k \in DOMAIN thr THEN thr[k] ELSE DefaultThresholds[k]]

\* C12: the three thresholds are independently overridable: whatever subset
\* of minor_max, moderate_max, severe_min the configuration supplies, once
\* the classification of main() has been reached it has completed with the
\* level that the supplied values, with the defaults 5.0 / 15.0 / 20.0 for
\* the missing ones, give to the deviation.
C12_ThresholdsIndependentlyOverridable ==
    ("classification" \in calls) =>
        /\ pc # "crashed"
        /\ exc = ""
        /\ level \in Levels
        /\ level = Classify(diff_percent, EffectiveThresholds(THR))

\* ------------------------------------------------------------------------
\* Direct calls of the geometry functions of utils/pole_est.py
\* ------------------------------------------------------------------------

\* number of steps the diameter takes across the measured range
DiamSteps == 127

\* diameters [um] from 0.170 m to 0.249375 m
DiameterInputs ==
    {diameters[1] + (k * (diameters[3] - diameters[1])) \div DiamSteps :
        k \in 0..DiamSteps}

\* heights [LU] below, at, inside, and above the measured span [0, 9.0] m
HeightProbeInputs ==
    {-20000, -1, 0, 1, 7500, 15000, 17999, 18000, 18001, 40000}

\* pole_diameter(height_from_diameter(d))
CallRoundTrip ==
    /\ call = NoCall
    /\ \E d \in DiameterInputs :
          call' = [fn |-> "round_trip", d |-> d,
                   h |-> height_from_diameter(d),
                   res |-> pole_diameter(height_from_diameter(d))]
    /\ UNCHANGED mainvars

CallPoleDiameter ==
    /\ call = NoCall
    /\ \E h \in HeightProbeInputs :
          call' = [fn |-> "pole_diameter", d |-> None, h |-> h,
                   res |-> pole_diameter(h)]
    /\ UNCHANGED mainvars

NextGeom ==
    \/ CallRoundTrip
    \/ CallPoleDiameter

SpecGeom == InitDirect /\ [][NextGeom]_vars

\* interpolation tolerance of the round trip [um]: one length unit of the
\* intermediate height on the steeper segment, plus the final rounding
RoundTripTol == 15

\* C13: for every diameter d in [0.170, 0.249375],
\* pole_diameter(height_from_diameter(d)) equals d within the interpolation
\* tolerance (the intermediate height lying in [0, 9.0]); for heights
\* outside [0, 9.0] pole_diameter returns the nearest endpoint diameter.
C13_GeometryRoundTrip ==
    /\ (/\ call.fn = "round_trip"
        /\ call.d >= 170000
        /\ call.d <= 249375) =>
           /\ call.h >= 0 /\ call.h <= 18000
           /\ Abs(call.res - call.d) <= RoundTripTol
    /\ (call.fn = "pole_diameter") =>
           /\ (call.h < 0) => (call.res = 170000)
           /\ (call.h > 18000) => (call.res = 249375)
           /\ call.res >= 170000 /\ call.res <= 249375

\* a diameter strictly inside the upper segment has made the round trip
C13_Witness ==
    /\ call.fn = "round_trip"
    /\ call.d > 210000 /\ call.d < 249375
    /\ call.h > 15000 /\ call.h < 18000
    /\ Abs(call.res - call.d) <= RoundTripTol

\* ------------------------------------------------------------------------
\* Properties of the dominant axis  (specification SpecExtract)
\* ------------------------------------------------------------------------

\* the axis of a call that carries a label
AxisOf(label) ==
    IF label = "ax" THEN call.ax ELSE IF label = "ay" THEN call.ay ELSE call.az

\* position of a label in the order ax, ay, az
AxisRank(label) == IF label = "ax" THEN 1 ELSE IF label = "ay" THEN 2 ELSE 3

\* the labels of the axes that are not None
SuppliedLabels == {l \in {"ax", "ay", "az"} : AxisOf(l) # NoAxis}

\* sum of squares of an axis cut to the common length; for one length it
\* orders the axes as their RMS does
TruncatedEnergy(label) ==
    LET c == SubSeq(AxisOf(label), 1, TruncatedLength)
    IN  SumSeq([i \in 1..Len(c) |-> c[i] * c[i]])

\* C14: after truncation to the shortest common length the analysed axis
\* has an RMS greater than or equal to that of every other supplied axis,
\* on equal RMS it is the earliest in the order ax, ay, az, and the
\* reported label is the label of the axis whose data was used, also when
\* some axes are None.
C14_DominantAxis ==
    (call.fn = "extract_natural_frequency" /\ call.res.ok) =>
        /\ call.res.axis \in SuppliedLabels
        /\ call.res.N = TruncatedLength
        /\ call.res.used = SubSeq(AxisOf(call.res.axis), 1, TruncatedLength)
        /\ \A l \in SuppliedLabels :
              /\ TruncatedEnergy(l) <= TruncatedEnergy(call.res.axis)
              /\ (AxisRank(l) < AxisRank(call.res.axis)) =>
                    TruncatedEnergy(l) < TruncatedEnergy(call.res.axis)

\* ax is None, ay and az tie after truncation to 4 samples; ay is analysed
C14_Witness ==
    /\ call.fn = "extract_natural_frequency"
    /\ call.ax = NoAxis
    /\ call.ay = <<1, -1, 1, -1>>
    /\ call.az = <<1, 1, 1, 1, 1, 1>>
    /\ call.res.ok
    /\ call.res.axis = "ay"
    /\ TruncatedEnergy("ay") = TruncatedEnergy("az")

\* ------------------------------------------------------------------------
\* Properties of the analysed mode  (specification Spec)
\* ------------------------------------------------------------------------

\* the user answered "y" and typed a number greater than zero
SupportEntered ==
    /\ has_support = "y"
    /\ h_support \notin {None, NaN, NonNumeric}
    /\ h_support > 0

\* the record appended last
LastRecord == results.items[Len(results.items)]

\* C15: once the deviation has been classified, it is the supported-side
\* deviation (match_support against f_support) exactly when the user
\* answered that the pole has a support and typed a support height > 0;
\* otherwise natural_frequency_with_support was not invoked, f_support and
\* its matched values are None (also in the appended record) and the
\* classified deviation is the free-side one.
C15_AnalysedMode ==
    ("classification" \in calls) =>
        IF SupportEntered
        THEN /\ "natural_frequency_with_support" \in calls
             /\ diff_label = "supported-side"
             /\ f_support =
                    natural_frequency_with_support(L_free, h_support,
                                                   CABLE_TOTAL_MASS(cable))
             /\ match_support = closest_peak(f_support, f_peaks)
             /\ diff_percent = Deviation(match_support, f_support)
        ELSE /\ "natural_frequency_with_support" \notin calls
             /\ diff_label = "free-side"
             /\ f_support = None
             /\ match_support = None
             /\ diff_percent = Deviation(match_free, f_free)
             /\ (pc = "done") =>
                   /\ LastRecord.supported_frequency_Hz = None
                   /\ LastRecord.matched_support_Hz = None
                   /\ LastRecord.matched_support_difference_percent = None

\* a run with a support at 1.5 m has been classified on the supported side
\* and saved
C15_Witness ==
    /\ pc = "done"
    /\ has_support = "y"
    /\ h_support = 3000
    /\ diff_label = "supported-side"
    /\ level \in Levels
    /\ LastRecord.supported_frequency_Hz = f_support

\* ------------------------------------------------------------------------
\* Repeated calls of append_json_record on one file
\* ------------------------------------------------------------------------

\* number of records appended in one run of calls
MaxAppends == 3

\* records as main() builds them: dictionaries that json.dump can write
LogRecords ==
    {[timestamp |-> 1, damage_level |-> "Moderate"],
     [timestamp |-> 2, damage_level |-> "Severe"],
     [timestamp |-> 3, damage_level |-> "Unclassified"]}

\* content of the file before the first call
LogFiles ==
    {AbsentFile, TextFile, ValueFile(OldRecord), ListFile(<<>>),
     ListFile(<<OldRecord>>),
     ListFile(<<[timestamp |-> 2, damage_level |-> "Severe"], OldRecord>>)}

\* everything main() owns except the result file
logframe == <<pc, sensor_file, THR, cable, choice, has_support,
              h_support, mode, entered, C_ground, L_free, data, f_peaks,
              peak_bins, f_free, f_support, match_free, match_support,
              diff_percent, diff_label, level, calls, reported, exc>>

InitLog ==
    /\ MainLocalsInit
    /\ sensor_file = NoFile
    /\ results \in LogFiles
    /\ THR = DefaultThresholds
    /\ cable = NoCable
    /\ call = NoCall

\* append_json_record(r, RESULTS_FILE); call keeps the content the file had
\* before the first call and the records passed so far
CallAppend ==
    /\ IF call = NoCall THEN TRUE ELSE Len(call.appended) < MaxAppends
    /\ \E r \in LogRecords :
          /\ results' = append_json_record(r, results)
          /\ call' = IF call = NoCall
                     THEN [fn |-> "append_json_record", initial |-> results,
                           appended |-> <<r>>]
                     ELSE [call EXCEPT !.appended = Append(@, r)]
    /\ UNCHANGED logframe

NextLog == CallAppend

SpecLog == InitLog /\ [][NextLog]_vars

\* the records a file content holds, in order: the elements of a JSON list,
\* the single value of a non-list JSON document, none for an absent or
\* unparsable file
PreviouslyStored(file) ==
    IF file.kind = "list" THEN file.items
    ELSE IF file.kind = "value" THEN <<file.value>>
    ELSE <<>>

\* C16: append_json_record never loses earlier results: after the calls
\* append_json_record(r1, p), ..., append_json_record(rn, p), whatever p
\* held before (no file, a JSON list, a single non-list JSON value,
\* unparsable text), the file holds a JSON list made of every previously
\* stored record in its original order followed by r1..rn in call order.
C16_AppendKeepsRecords ==
    (call.fn = "append_json_record") =>
        /\ results.kind = "list"
        /\ results.items = PreviouslyStored(call.initial) \o call.appended

\* two records have been appended to a file that held a single JSON object
C16_Witness ==
    /\ call.fn = "append_json_record"
    /\ call.initial = ValueFile(OldRecord)
    /\ Len(call.appended) = 2
    /\ results.items[1] = OldRecord
    /\ Len(results.items) = 3

\* ------------------------------------------------------------------------
\* Repeated calls of fetch_sensor_data on one data file
\* ------------------------------------------------------------------------

\* number of requests in one run of calls
MaxFetches == 3

\* everything except the data file and the call log
fetchframe == <<pc, results, THR, cable, choice, has_support,
                h_support, mode, entered, C_ground, L_free, data, f_peaks,
                peak_bins, f_free, f_support, match_free, match_support,
                diff_percent, diff_label, level, calls, reported, exc>>

\* the data file is absent or was written by earlier calls
InitFetch ==
    /\ MainLocalsInit
    /\ sensor_file \in SensorFiles
    /\ results = AbsentFile
    /\ THR = DefaultThresholds
    /\ cable = NoCable
    /\ call = NoCall

\* fetch_sensor_data(url); call keeps the file as it was before the call,
\* the answer of the endpoint and the value returned
CallFetch ==
    /\ IF call = NoCall THEN TRUE ELSE call.n < MaxFetches
    /\ \E r \in Responses :
          LET out == fetch_sensor_data(r, sensor_file)
          IN  /\ sensor_file' = out.file
              /\ call' = [fn |-> "fetch_sensor_data", before |-> sensor_file,
                          response |-> r, ret |-> out.ret,
                          n |-> IF call = NoCall THEN 1 ELSE call.n + 1]
    /\ UNCHANGED fetchframe

NextFetch == CallFetch

SpecFetch == InitFetch /\ [][NextFetch]_vars

\* a request error or non-2xx status, a non-JSON body, or a body that is
\* not a non-empty list
FailedFetch(response) ==
    \/ response.kind # "json"
    \/ ~response.list
    \/ Len(response.rows.ts) = 0

\* C17: fetch_sensor_data returns False and leaves the data file as it was
\* (not created, not modified) on a request error or non-2xx status, a
\* non-JSON body, or a body that is not a non-empty list; otherwise it
\* returns True, the received rows follow the existing rows, and the header
\* line is written only when the file did not exist, so that after any
\* sequence of calls an existing file has exactly one header line.
C17_FetchFrame ==
    (call.fn = "fetch_sensor_data") =>
        /\ call.ret = ~FailedFetch(call.response)
        /\ FailedFetch(call.response) => sensor_file = call.before
        /\ ~FailedFetch(call.response) =>
              /\ sensor_file.exists
              /\ sensor_file.ts = call.before.ts \o call.response.rows.ts
              /\ sensor_file.ax = call.before.ax \o call.response.rows.ax
              /\ sensor_file.ay = call.before.ay \o call.response.rows.ay
              /\ sensor_file.az = call.before.az \o call.response.rows.az
              /\ sensor_file.headers =
                     IF call.before.exists THEN call.before.headers ELSE 1
        /\ sensor_file.headers = IF sensor_file.exists THEN 1 ELSE 0

\* a second successful request has appended its rows to the file that the
\* first one created
C17_Witness ==
    /\ call.fn = "fetch_sensor_data"
    /\ call.n = 2
    /\ call.ret
    /\ call.before.exists
    /\ call.before.ts = Payload.ts
    /\ sensor_file.ts = Payload.ts \o PayloadOne.ts
    /\ sensor_file.headers = 1

=============================================================================
